---- MODULE Spec2Model ----
(***************************************************************************)
(* Model of the entity mention linker of regen-koi-mcp                     *)
(* (tools/python/entity_linker.py, extract_entity_mentions and helpers).   *)
(*                                                                         *)
(* A text is a sequence of one-character strings.  Offsets are the         *)
(* 0-based Python offsets: a span [start, end) of doc is the characters    *)
(* doc[start+1] .. doc[end] of the TLA+ sequence.  Confidences are kept    *)
(* in hundredths (1.0 is 100, 0.9 is 90, 0.8 is 80, 0.7 is 70), so that    *)
(* every comparison of the code is an integer comparison.                  *)
(***************************************************************************)
EXTENDS Integers, Sequences, FiniteSets, TLC

(***************************************************************************)
(* Characters: str.lower(), the \w and \s classes of the re module.        *)
(***************************************************************************)
UpperCase == <<"A","B","C","D","E","F","G","H","I","J","K","L","M",
               "N","O","P","Q","R","S","T","U","V","W","X","Y","Z">>
LowerCase == <<"a","b","c","d","e","f","g","h","i","j","k","l","m",
               "n","o","p","q","r","s","t","u","v","w","x","y","z">>
Digits == {"0","1","2","3","4","5","6","7","8","9"}

LowerOf == [c \in {UpperCase[i] : i \in DOMAIN UpperCase} |->
              LowerCase[CHOOSE i \in DOMAIN UpperCase : UpperCase[i] = c]]

\* str.lower() on one character
lower_char(c) == IF c \in DOMAIN LowerOf THEN LowerOf[c] ELSE c

\* str.lower()
lower(s) == [i \in DOMAIN s |-> lower_char(s[i])]

\* \w of the re module: letters, digits and the underscore
WordChars == {UpperCase[i] : i \in DOMAIN UpperCase}
             \cup {LowerCase[i] : i \in DOMAIN LowerCase}
             \cup Digits \cup {"_"}

IsWordChar(c) == c \in WordChars

\* \s of the re module, and the separators of str.split()
WhiteSpace == {" ", "\t", "\n", "\r", "\f"}

IsSpace(c) == c \in WhiteSpace

Max(a, b) == IF a >= b THEN a ELSE b
Min(a, b) == IF a <= b THEN a ELSE b

\* Python's s[a:b]: negative indexes count from the end, both are clamped
SliceIndex(s, i) == IF i < 0 THEN Max(0, i + Len(s)) ELSE Min(i, Len(s))

Slice(s, a, b) == SubSeq(s, SliceIndex(s, a) + 1, SliceIndex(s, b))

(***************************************************************************)
(* The patterns of the linker, matched as the re module matches them.      *)
(***************************************************************************)
\* \b at offset i: exactly one of the characters around i is a word character
WordBoundary(doc, i) ==
    LET before == i > 0 /\ IsWordChar(doc[i])
        after  == i < Len(doc) /\ IsWordChar(doc[i + 1])
    IN  before # after

\* a faulty variant: the text is not escaped, and a "." of it matches any
\* character
CharMatches_unescaped(c, p, ignorecase) ==
    \/ p = "."
    \/ IF ignorecase THEN lower_char(c) = lower_char(p) ELSE c = p

\* one literal character of an escaped pattern, with or without re.IGNORECASE
CharMatches(c, p, ignorecase) ==
    IF ignorecase THEN lower_char(c) = lower_char(p) ELSE c = p

\* re.escape(text) matched at offset s
LiteralAt(text, doc, s, ignorecase) ==
    /\ s + Len(text) <= Len(doc)
    /\ \A j \in 1..Len(text) : CharMatches(doc[s + j], text[j], ignorecase)

\* r'\b' + re.escape(text) + r'\b' matched at offset s: the end offset, or -1
WordPatternEnd(text, doc, s, ignorecase) ==
    IF /\ WordBoundary(doc, s)
       /\ LiteralAt(text, doc, s, ignorecase)
       /\ WordBoundary(doc, s + Len(text))
    THEN s + Len(text)
    ELSE -1

eeper == <<"e","e","p","e","r">>

\* the offset after the run of whitespace that starts at offset w
RECURSIVE SkipSpace(_, _)
SkipSpace(doc, w) ==
    IF w < Len(doc) /\ IsSpace(doc[w + 1]) THEN SkipSpace(doc, w + 1) ELSE w

\* r'\b' + re.escape(module) + r'\s+[Kk]eeper\b' matched at offset s: the
\* end offset, or -1.  \s+ has to take the whole run of whitespace, because
\* [Kk] matches no whitespace character.
KeeperPatternEnd(module, doc, s) ==
    LET w == s + Len(module)
        k == SkipSpace(doc, w)
    IN  IF /\ WordBoundary(doc, s)
           /\ LiteralAt(module, doc, s, FALSE)
           /\ k > w
           /\ k < Len(doc)
           /\ doc[k + 1] \in {"K", "k"}
           /\ LiteralAt(eeper, doc, k + 1, FALSE)
           /\ WordBoundary(doc, k + 6)
        THEN k + 6
        ELSE -1

\* the patterns the four loops search for
KeeperPattern(module) == [kind |-> "keeper", text |-> module, ignorecase |-> FALSE]
WordPattern(text, ignorecase) == [kind |-> "word", text |-> text, ignorecase |-> ignorecase]

PatternEnd(pattern, doc, s) ==
    IF pattern.kind = "keeper"
    THEN KeeperPatternEnd(pattern.text, doc, s)
    ELSE WordPatternEnd(pattern.text, doc, s, pattern.ignorecase)

NoMatch == [start |-> -1, end |-> -1]

\* the next match re.finditer yields when its scan stands at offset pos
NextMatch(pattern, doc, pos) ==
    LET starts == {s \in pos..Len(doc) : PatternEnd(pattern, doc, s) # -1}
    IN  IF starts = {} THEN NoMatch
        ELSE LET s == CHOOSE x \in starts : \A y \in starts : x <= y
             IN  [start |-> s, end |-> PatternEnd(pattern, doc, s)]

(***************************************************************************)
(* The helpers of the linker.                                              *)
(***************************************************************************)
IsPrefix(p, s) == Len(p) <= Len(s) /\ SubSeq(s, 1, Len(p)) = p
IsSuffix(p, s) == Len(p) <= Len(s) /\ SubSeq(s, Len(s) - Len(p) + 1, Len(s)) = p

\* a faulty variant: the letter case is ignored before the exact comparison,
\* so the name itself outside a code block is scored 0.9
_calculate_confidence_case_first(entity_name, matched_text, in_code_block) ==
    IF lower(matched_text) = lower(entity_name)
    THEN (IF in_code_block THEN 100 ELSE 90)
    ELSE IF \/ IsSuffix(lower(matched_text), lower(entity_name))
            \/ IsPrefix(lower(matched_text), lower(entity_name))
         THEN 70
    ELSE 80

\* a faulty variant: the prefix and suffix test comes before the
\* case-insensitive comparison, which it includes
_calculate_confidence_partial_first(entity_name, matched_text, in_code_block) ==
    IF matched_text = entity_name THEN 100
    ELSE IF \/ IsSuffix(lower(matched_text), lower(entity_name))
            \/ IsPrefix(lower(matched_text), lower(entity_name))
         THEN 70
    ELSE IF lower(matched_text) = lower(entity_name)
         THEN (IF in_code_block THEN 100 ELSE 90)
    ELSE 80

\* a faulty variant: a code block does not raise the score
_calculate_confidence_no_code_block(entity_name, matched_text, in_code_block) ==
    IF matched_text = entity_name THEN 100
    ELSE IF lower(matched_text) = lower(entity_name) THEN 90
    ELSE IF \/ IsSuffix(lower(matched_text), lower(entity_name))
            \/ IsPrefix(lower(matched_text), lower(entity_name))
         THEN 70
    ELSE 80

_calculate_confidence(entity_name, matched_text, in_code_block) ==
    IF matched_text = entity_name THEN 100
    ELSE IF lower(matched_text) = lower(entity_name)
         THEN (IF in_code_block THEN 100 ELSE 90)
    ELSE IF \/ IsSuffix(lower(matched_text), lower(entity_name))
            \/ IsPrefix(lower(matched_text), lower(entity_name))
         THEN 70
    ELSE 80

\* str.split(): the maximal runs of characters that are not whitespace
RECURSIVE split(_)
split(s) ==
    IF s = <<>> THEN <<>>
    ELSE IF IsSpace(s[1]) THEN split(Tail(s))
    ELSE LET stops == {i \in 1..Len(s) : IsSpace(s[i])}
             n == IF stops = {} THEN Len(s)
                  ELSE (CHOOSE i \in stops : \A j \in stops : i <= j) - 1
         IN  <<SubSeq(s, 1, n)>> \o split(SubSeq(s, n + 1, Len(s)))

\* a faulty variant: the words are joined with nothing between them
RECURSIVE join_no_space(_)
join_no_space(words) ==
    IF words = <<>> THEN <<>>
    ELSE IF Len(words) = 1 THEN words[1]
    ELSE words[1] \o join_no_space(Tail(words))

\* ' '.join(words)
RECURSIVE join(_)
join(words) ==
    IF words = <<>> THEN <<>>
    ELSE IF Len(words) = 1 THEN words[1]
    ELSE words[1] \o <<" ">> \o join(Tail(words))

_extract_context(doc_text, start, end, context_chars) ==
    LET context_start == Max(0, start - context_chars)
        context_end   == Min(Len(doc_text), end + context_chars)
    IN  join(split(Slice(doc_text, context_start, context_end)))

\* The backtick character.  The lexer of TLA+ accepts no backtick inside a
\* string, so this one character is written as a word.
Backtick == "BACKTICK"

\* str.count of the backtick
CountBackticks(s) == Cardinality({i \in DOMAIN s : s[i] = Backtick})

_is_in_code_block(doc_text, position) ==
    LET before == Slice(doc_text, 0, position)
        after  == Slice(doc_text, position, Len(doc_text))
    IN  /\ CountBackticks(before) % 2 = 1
        /\ \E i \in DOMAIN after : after[i] = Backtick

(***************************************************************************)
(* One call of extract_entity_mentions.  A frame holds the locals of the   *)
(* call: config, min_confidence, context_chars, mentions, matched_ranges,  *)
(* and the place of the scan: pc names the loop that runs, ei the index of *)
(* its entity in entity_list, ai the index of its alias, and pos the       *)
(* offset at which re.finditer goes on searching.                          *)
(***************************************************************************)
\* config = None; a dict is a function from its keys to their values
None == [is_none |-> TRUE]

\* the dict {}
EmptyDict == [key \in {} |-> 0]

\* dict.get(key, default)
Get(dict, key, default) == IF key \in DOMAIN dict THEN dict[key] ELSE default

Idle(config) ==
    [pc |-> "call", config |-> config, min_confidence |-> 0, context_chars |-> 0,
     mentions |-> <<>>, matched_ranges |-> <<>>, ei |-> 0, ai |-> 0, pos |-> 0]

\* a faulty variant: only the start of the candidate is looked for in the
\* ranges matched so far
overlaps_existing_start_only(matched_ranges, start, end) ==
    \E i \in DOMAIN matched_ranges :
        start >= matched_ranges[i][1] /\ start < matched_ranges[i][2]

overlaps_existing(matched_ranges, start, end) ==
    \E i \in DOMAIN matched_ranges :
        ~(end <= matched_ranges[i][1] \/ start >= matched_ranges[i][2])

\* a faulty variant: the name of the entity is taken for its identifier
Mention_name_as_id(entity, doc_text, start, end, confidence, context_chars) ==
    [entity_id    |-> entity.name,
     entity_name  |-> entity.name,
     entity_type  |-> entity.entity_type,
     surface_form |-> Slice(doc_text, start, end),
     start_offset |-> start,
     end_offset   |-> end,
     confidence   |-> confidence,
     context      |-> _extract_context(doc_text, start, end, context_chars)]

\* a faulty variant: the name of the entity is taken for the matched text
Mention_name_as_surface(entity, doc_text, start, end, confidence, context_chars) ==
    [entity_id    |-> entity.entity_id,
     entity_name  |-> entity.name,
     entity_type  |-> entity.entity_type,
     surface_form |-> entity.name,
     start_offset |-> start,
     end_offset   |-> end,
     confidence   |-> confidence,
     context      |-> _extract_context(doc_text, start, end, context_chars)]

Mention(entity, doc_text, start, end, confidence, context_chars) ==
    [entity_id    |-> entity.entity_id,
     entity_name  |-> entity.name,
     entity_type  |-> entity.entity_type,
     surface_form |-> Slice(doc_text, start, end),
     start_offset |-> start,
     end_offset   |-> end,
     confidence   |-> confidence,
     context      |-> _extract_context(doc_text, start, end, context_chars)]

\* a faulty variant: the span of a collected mention is not recorded
Collect_range_forgotten(f, entity, doc_text, m, confidence) ==
    IF confidence >= f.min_confidence
    THEN [f EXCEPT !.mentions = Append(@, Mention(entity, doc_text, m.start, m.end,
                                                  confidence, f.context_chars)),
                   !.pos = m.end]
    ELSE [f EXCEPT !.pos = m.end]

\* a faulty variant: the threshold is not looked at
Collect_unfiltered(f, entity, doc_text, m, confidence) ==
    [f EXCEPT !.mentions = Append(@, Mention(entity, doc_text, m.start, m.end,
                                             confidence, f.context_chars)),
              !.matched_ranges = Append(@, <<m.start, m.end>>),
              !.pos = m.end]

\* a faulty variant: the range is recorded before the threshold is looked at
Collect_range_always(f, entity, doc_text, m, confidence) ==
    IF confidence >= f.min_confidence
    THEN [f EXCEPT !.mentions = Append(@, Mention(entity, doc_text, m.start, m.end,
                                                  confidence, f.context_chars)),
                   !.matched_ranges = Append(@, <<m.start, m.end>>),
                   !.pos = m.end]
    ELSE [f EXCEPT !.matched_ranges = Append(@, <<m.start, m.end>>),
                   !.pos = m.end]

\* if confidence >= min_confidence: mentions.append(...); matched_ranges.append(...)
Collect(f, entity, doc_text, m, confidence) ==
    IF confidence >= f.min_confidence
    THEN [f EXCEPT !.mentions = Append(@, Mention(entity, doc_text, m.start, m.end,
                                                  confidence, f.context_chars)),
                   !.matched_ranges = Append(@, <<m.start, m.end>>),
                   !.pos = m.end]
    ELSE [f EXCEPT !.pos = m.end]

\* a faulty variant: Phase 2 does not look at the length of the name
RECURSIVE Seek_any_length(_, _, _, _)
Seek_any_length(entity_list, pc, ei, ai) ==
    CASE pc = "phase1_keeper" ->
           IF ei > Len(entity_list) THEN Seek_any_length(entity_list, "phase2", 1, 0)
           ELSE IF entity_list[ei].entity_type = "Keeper" /\ entity_list[ei].module # <<>>
                THEN [pc |-> pc, ei |-> ei, ai |-> 0]
                ELSE Seek_any_length(entity_list, "phase1_alias", ei, 1)
      [] pc = "phase1_alias" ->
           IF ai > Len(entity_list[ei].aliases)
           THEN Seek_any_length(entity_list, "phase1_keeper", ei + 1, 0)
           ELSE IF Len(entity_list[ei].aliases[ai]) > 3
                THEN [pc |-> pc, ei |-> ei, ai |-> ai]
                ELSE Seek_any_length(entity_list, "phase1_alias", ei, ai + 1)
      [] pc = "phase2" ->
           IF ei > Len(entity_list) THEN Seek_any_length(entity_list, "phase3", 1, 0)
           ELSE [pc |-> pc, ei |-> ei, ai |-> 0]
      [] pc = "phase3" ->
           IF ei > Len(entity_list) THEN [pc |-> "sort", ei |-> 0, ai |-> 0]
           ELSE IF Len(entity_list[ei].name) > 3
                THEN [pc |-> pc, ei |-> ei, ai |-> 0]
                ELSE Seek_any_length(entity_list, "phase3", ei + 1, 0)

\* a faulty variant: Phase 1 does not look at the length of the alias
RECURSIVE Seek_short_aliases(_, _, _, _)
Seek_short_aliases(entity_list, pc, ei, ai) ==
    CASE pc = "phase1_keeper" ->
           IF ei > Len(entity_list) THEN Seek_short_aliases(entity_list, "phase2", 1, 0)
           ELSE IF entity_list[ei].entity_type = "Keeper" /\ entity_list[ei].module # <<>>
                THEN [pc |-> pc, ei |-> ei, ai |-> 0]
                ELSE Seek_short_aliases(entity_list, "phase1_alias", ei, 1)
      [] pc = "phase1_alias" ->
           IF ai > Len(entity_list[ei].aliases)
           THEN Seek_short_aliases(entity_list, "phase1_keeper", ei + 1, 0)
           ELSE [pc |-> pc, ei |-> ei, ai |-> ai]
      [] pc = "phase2" ->
           IF ei > Len(entity_list) THEN Seek_short_aliases(entity_list, "phase3", 1, 0)
           ELSE IF Len(entity_list[ei].name) > 3
                THEN [pc |-> pc, ei |-> ei, ai |-> 0]
                ELSE Seek_short_aliases(entity_list, "phase2", ei + 1, 0)
      [] pc = "phase3" ->
           IF ei > Len(entity_list) THEN [pc |-> "sort", ei |-> 0, ai |-> 0]
           ELSE IF Len(entity_list[ei].name) > 3
                THEN [pc |-> pc, ei |-> ei, ai |-> 0]
                ELSE Seek_short_aliases(entity_list, "phase3", ei + 1, 0)

\* the first loop, from the place (pc, ei, ai) of the scan on, whose
\* condition lets its re.finditer run: the for and if lines between the loops
RECURSIVE Seek(_, _, _, _)
Seek(entity_list, pc, ei, ai) ==
    CASE pc = "phase1_keeper" ->
           IF ei > Len(entity_list) THEN Seek(entity_list, "phase2", 1, 0)
           ELSE IF entity_list[ei].entity_type = "Keeper" /\ entity_list[ei].module # <<>>
                THEN [pc |-> pc, ei |-> ei, ai |-> 0]
                ELSE Seek(entity_list, "phase1_alias", ei, 1)
      [] pc = "phase1_alias" ->
           IF ai > Len(entity_list[ei].aliases)
           THEN Seek(entity_list, "phase1_keeper", ei + 1, 0)
           ELSE IF Len(entity_list[ei].aliases[ai]) > 3
                THEN [pc |-> pc, ei |-> ei, ai |-> ai]
                ELSE Seek(entity_list, "phase1_alias", ei, ai + 1)
      [] pc = "phase2" ->
           IF ei > Len(entity_list) THEN Seek(entity_list, "phase3", 1, 0)
           ELSE IF Len(entity_list[ei].name) > 3
                THEN [pc |-> pc, ei |-> ei, ai |-> 0]
                ELSE Seek(entity_list, "phase2", ei + 1, 0)
      [] pc = "phase3" ->
           IF ei > Len(entity_list) THEN [pc |-> "sort", ei |-> 0, ai |-> 0]
           ELSE IF Len(entity_list[ei].name) > 3
                THEN [pc |-> pc, ei |-> ei, ai |-> 0]
                ELSE Seek(entity_list, "phase3", ei + 1, 0)

\* the scan moves to the loop at place p
Goto(f, p) == [f EXCEPT !.pc = p.pc, !.ei = p.ei, !.ai = p.ai, !.pos = 0]

\* a faulty variant: an empty catalog is refused with an error
CallStep_refuses_empty(entity_list, f) ==
    LET config == IF "is_none" \in DOMAIN f.config THEN EmptyDict ELSE f.config
    IN  IF entity_list = <<>> THEN [f EXCEPT !.pc = "error"]
        ELSE Goto([f EXCEPT !.config = config,
                            !.min_confidence = Get(config, "min_confidence", 0),
                            !.context_chars = Get(config, "context_chars", 50),
                            !.mentions = <<>>,
                            !.matched_ranges = <<>>],
                  Seek(entity_list, "phase1_keeper", 1, 0))

\* lines 177-186: the defaults of the config, the empty lists, and the way
\* to the first loop
CallStep(entity_list, f) ==
    LET config == IF "is_none" \in DOMAIN f.config THEN EmptyDict ELSE f.config
    IN  Goto([f EXCEPT !.config = config,
                       !.min_confidence = Get(config, "min_confidence", 0),
                       !.context_chars = Get(config, "context_chars", 50),
                       !.mentions = <<>>,
                       !.matched_ranges = <<>>],
             Seek(entity_list, "phase1_keeper", 1, 0))

\* a faulty variant: the keeper match is not checked against the ranges
Phase1KeeperStep_unchecked(doc_text, entity_list, f) ==
    LET entity == entity_list[f.ei]
        m == NextMatch(KeeperPattern(entity.module), doc_text, f.pos)
    IN  IF m = NoMatch THEN Goto(f, Seek(entity_list, "phase1_alias", f.ei, 1))
        ELSE Collect(f, entity, doc_text, m, 80)

\* one turn of the loop over the "{module} keeper" matches of entity ei
Phase1KeeperStep(doc_text, entity_list, f) ==
    LET entity == entity_list[f.ei]
        m == NextMatch(KeeperPattern(entity.module), doc_text, f.pos)
    IN  IF m = NoMatch THEN Goto(f, Seek(entity_list, "phase1_alias", f.ei, 1))
        ELSE IF overlaps_existing(f.matched_ranges, m.start, m.end)
             THEN [f EXCEPT !.pos = m.end]
        ELSE Collect(f, entity, doc_text, m, 80)

\* a faulty variant: the alias match is scored like a name match
Phase1AliasStep_scored(doc_text, entity_list, f) ==
    LET entity == entity_list[f.ei]
        m == NextMatch(WordPattern(entity.aliases[f.ai], TRUE), doc_text, f.pos)
    IN  IF m = NoMatch THEN Goto(f, Seek(entity_list, "phase1_alias", f.ei, f.ai + 1))
        ELSE IF overlaps_existing(f.matched_ranges, m.start, m.end)
             THEN [f EXCEPT !.pos = m.end]
        ELSE Collect(f, entity, doc_text, m,
                     _calculate_confidence(entity.name, Slice(doc_text, m.start, m.end),
                                           _is_in_code_block(doc_text, m.start)))

\* one turn of the loop over the matches of alias ai of entity ei
Phase1AliasStep(doc_text, entity_list, f) ==
    LET entity == entity_list[f.ei]
        m == NextMatch(WordPattern(entity.aliases[f.ai], TRUE), doc_text, f.pos)
    IN  IF m = NoMatch THEN Goto(f, Seek(entity_list, "phase1_alias", f.ei, f.ai + 1))
        ELSE IF overlaps_existing(f.matched_ranges, m.start, m.end)
             THEN [f EXCEPT !.pos = m.end]
        ELSE Collect(f, entity, doc_text, m, 80)

\* a faulty variant: Phase 2 searches with re.IGNORECASE as Phase 3 does
Phase2Step_ignorecase(doc_text, entity_list, f) ==
    LET entity == entity_list[f.ei]
        m == NextMatch(WordPattern(entity.name, TRUE), doc_text, f.pos)
    IN  IF m = NoMatch THEN Goto(f, Seek(entity_list, "phase2", f.ei + 1, 0))
        ELSE IF overlaps_existing(f.matched_ranges, m.start, m.end)
             THEN [f EXCEPT !.pos = m.end]
        ELSE Collect(f, entity, doc_text, m,
                     _calculate_confidence(entity.name, Slice(doc_text, m.start, m.end),
                                           _is_in_code_block(doc_text, m.start)))

\* one turn of the loop over the case-sensitive matches of the name of entity ei
Phase2Step(doc_text, entity_list, f) ==
    LET entity == entity_list[f.ei]
        m == NextMatch(WordPattern(entity.name, FALSE), doc_text, f.pos)
    IN  IF m = NoMatch THEN Goto(f, Seek(entity_list, "phase2", f.ei + 1, 0))
        ELSE IF overlaps_existing(f.matched_ranges, m.start, m.end)
             THEN [f EXCEPT !.pos = m.end]
        ELSE Collect(f, entity, doc_text, m,
                     _calculate_confidence(entity.name, Slice(doc_text, m.start, m.end),
                                           _is_in_code_block(doc_text, m.start)))

\* a faulty variant: a match that overlaps ends the loop (break for continue)
Phase3Step_break(doc_text, entity_list, f) ==
    LET entity == entity_list[f.ei]
        m == NextMatch(WordPattern(entity.name, TRUE), doc_text, f.pos)
    IN  IF m = NoMatch THEN Goto(f, Seek(entity_list, "phase3", f.ei + 1, 0))
        ELSE IF overlaps_existing(f.matched_ranges, m.start, m.end)
             THEN Goto(f, Seek(entity_list, "phase3", f.ei + 1, 0))
        ELSE IF Slice(doc_text, m.start, m.end) = entity.name
             THEN [f EXCEPT !.pos = m.end]
        ELSE Collect(f, entity, doc_text, m,
                     _calculate_confidence(entity.name, Slice(doc_text, m.start, m.end),
                                           _is_in_code_block(doc_text, m.start)))

\* one turn of the loop over the case-insensitive matches of the name of entity ei
Phase3Step(doc_text, entity_list, f) ==
    LET entity == entity_list[f.ei]
        m == NextMatch(WordPattern(entity.name, TRUE), doc_text, f.pos)
    IN  IF m = NoMatch THEN Goto(f, Seek(entity_list, "phase3", f.ei + 1, 0))
        ELSE IF overlaps_existing(f.matched_ranges, m.start, m.end)
             THEN [f EXCEPT !.pos = m.end]
        ELSE IF Slice(doc_text, m.start, m.end) = entity.name
             THEN [f EXCEPT !.pos = m.end]
        ELSE Collect(f, entity, doc_text, m,
                     _calculate_confidence(entity.name, Slice(doc_text, m.start, m.end),
                                           _is_in_code_block(doc_text, m.start)))

\* list.sort(key=lambda m: m.start_offset): stable, by insertion
RECURSIVE Insert(_, _)
Insert(sorted, m) ==
    IF sorted = <<>> THEN <<m>>
    ELSE IF sorted[Len(sorted)].start_offset <= m.start_offset THEN Append(sorted, m)
    ELSE Append(Insert(SubSeq(sorted, 1, Len(sorted) - 1), m), sorted[Len(sorted)])

\* a faulty variant: the mentions stay in the order of their discovery
sort_skipped(mentions) == mentions

RECURSIVE sort(_)
sort(mentions) ==
    IF mentions = <<>> THEN <<>>
    ELSE Insert(sort(SubSeq(mentions, 1, Len(mentions) - 1)), mentions[Len(mentions)])

\* lines 325-328: sort the mentions and return them
SortStep(f) == [f EXCEPT !.mentions = sort(@), !.pc = "done"]

\* one step of a call that has not returned
Step(doc_text, entity_list, f) ==
    CASE f.pc = "call"          -> CallStep(entity_list, f)
      [] f.pc = "phase1_keeper" -> Phase1KeeperStep(doc_text, entity_list, f)
      [] f.pc = "phase1_alias"  -> Phase1AliasStep(doc_text, entity_list, f)
      [] f.pc = "phase2"        -> Phase2Step(doc_text, entity_list, f)
      [] f.pc = "phase3"        -> Phase3Step(doc_text, entity_list, f)
      [] f.pc = "sort"          -> SortStep(f)

RECURSIVE Run(_, _, _)
Run(doc_text, entity_list, f) ==
    IF f.pc = "done" THEN f.mentions
    ELSE Run(doc_text, entity_list, Step(doc_text, entity_list, f))

\* the list a call returns when nothing else runs
extract_entity_mentions(doc_text, entity_list, config) ==
    Run(doc_text, entity_list, Idle(config))

(***************************************************************************)
(* The inputs: documents, entity catalogs and configs.                     *)
(***************************************************************************)
s_data   == <<"d","a","t","a">>
s_Data   == <<"D","a","t","a">>
s_keeper == <<"k","e","e","p","e","r">>
s_Keeper == <<"K","e","e","p","e","r">>

Entity(entity_id, entity_type, name, module, aliases) ==
    [entity_id |-> entity_id, entity_type |-> entity_type, name |-> name,
     module |-> module, aliases |-> aliases]

\* the keeper of scenario 4 of the tests, with module data
KeeperData == Entity("keeper:data", "Keeper", s_Keeper, s_data,
                     <<s_data \o <<" ">> \o s_keeper>>)
\* a second keeper of the same name, with a short alias and a long one
KeeperX    == Entity("keeper:x", "Keeper", s_Keeper, <<"x">>, <<<<"x">>, s_keeper>>)
\* a keeper with a name of one character
ShortX     == Entity("keeper:short", "Keeper", <<"x">>, <<"x">>, <<s_keeper>>)
\* messages: no module pattern
MsgData    == Entity("msg:Data", "Msg", s_Data, <<>>, <<>>)
MsgLower   == Entity("msg:data", "Msg", s_data, <<>>, <<>>)
MsgAlias   == Entity("msg:alias", "Msg", s_Data, s_data, <<s_data>>)
\* names with a character that is special in a pattern
MsgDotted  == Entity("msg:dotted", "Msg", s_data \o <<".">> \o s_Keeper, <<>>, <<>>)
MsgDotData == Entity("msg:dot", "Msg", <<".">> \o s_data, <<>>, <<>>)

\* a keeper whose module and alias have a "." in them, and a name with a "*"
s_x_x == <<"x", ".", "x">>
KeeperDotted == Entity("keeper:x.x", "Keeper", s_Keeper, s_x_x,
                       <<s_data \o <<".", "x">>>>)
MsgStar      == Entity("msg:star", "Msg", <<"x", "*">> \o s_data, <<>>, <<>>)

Catalogs ==
    { <<>>,
      <<KeeperData>>, <<KeeperX>>, <<ShortX>>, <<MsgData>>, <<MsgAlias>>,
      <<MsgDotted>>, <<MsgDotData>>,
      <<KeeperData, MsgData>>, <<MsgData, KeeperData>>,
      <<KeeperData, KeeperX>>, <<KeeperX, KeeperData>>,
      <<ShortX, KeeperData>>,
      <<MsgData, MsgLower>>, <<MsgLower, MsgData>>,
      <<KeeperData, MsgDotted>> }

Tokens == { <<" ">>, <<Backtick>>, <<".">>, <<"x">>, s_data, s_Data, s_keeper, s_Keeper }

MaxTokens == 3

\* the texts made of at most n tokens
RECURSIVE Texts(_, _)
Texts(tokens, n) ==
    IF n = 0 THEN {<<>>}
    ELSE LET shorter == Texts(tokens, n - 1)
         IN  shorter \cup {t \o w : t \in shorter, w \in tokens}

Documents == Texts(Tokens, MaxTokens)

Configs ==
    { None,
      [min_confidence |-> 90],
      [min_confidence |-> 150],
      [context_chars |-> 2],
      [context_chars |-> -1] }

(***************************************************************************)
(* The state: the arguments of the call and the frame of each call.        *)
(***************************************************************************)
(***************************************************************************)
(* The graph of create_mentions.py.  It holds the entity nodes, which were *)
(* there before the script runs (one for each entity, with its name as a   *)
(* property), the Document nodes, and the MENTIONS edges.  pc is the place *)
(* of main in its turn of the loop over the documents, and next the index  *)
(* of the mention whose edge main creates next.                            *)
(***************************************************************************)
\* no run of main: the linker is called on its own
NoGraph == [pc |-> "none", nodes |-> <<>>, documents |-> {}, edges |-> {}, next |-> 0]

\* the graph when main takes a document from the list
Graph(entities) ==
    [pc |-> "document", nodes |-> entities, documents |-> {}, edges |-> {}, next |-> 1]

\* MERGE (d:Document {id: doc_id, ...})
create_document_node(g, doc_id) == [g EXCEPT !.documents = @ \cup {doc_id}]

\* MATCH (d:Document {id: doc_id}) MATCH (e {name: entity_name})
\* MERGE (d)-[r:MENTIONS {...}]->(e): one edge for every pair of matches
create_mentions_edge(g, doc_id, entity_name, surface_form, confidence, start_offset) ==
    [g EXCEPT !.edges = @ \cup
        { [doc |-> d, node |-> e, surface_form |-> surface_form,
           confidence |-> confidence, start_offset |-> start_offset] :
              d \in {x \in g.documents : x = doc_id},
              e \in {n \in DOMAIN g.nodes : g.nodes[n].name = entity_name} }]

VARIABLES doc_text, entity_list, calls, graph

vars == <<doc_text, entity_list, calls, graph>>

Init ==
    /\ doc_text \in Documents
    /\ entity_list \in Catalogs
    /\ \E config \in Configs : calls = [c \in {1} |-> Idle(config)]
    /\ graph = NoGraph

At(c, pc) == c \in DOMAIN calls /\ calls[c].pc = pc

\* the ranges that the other calls hold, one call after the other
RECURSIVE RangesOfOthers(_, _)
RangesOfOthers(c, d) ==
    IF d = 0 THEN <<>>
    ELSE RangesOfOthers(c, d - 1)
             \o (IF d = c THEN <<>> ELSE calls[d].matched_ranges)

\* a faulty variant: matched_ranges is a list that outlives the call (a
\* mutable default), so a call starts with the ranges of the calls before it
Call_keeps_ranges(c) ==
    /\ At(c, "call")
    /\ calls' = [calls EXCEPT ![c] =
                     [CallStep(entity_list, @) EXCEPT
                          !.matched_ranges = RangesOfOthers(c, Len(calls))]]
    /\ UNCHANGED <<doc_text, entity_list, graph>>

Call(c) ==
    /\ At(c, "call")
    /\ calls' = [calls EXCEPT ![c] = CallStep(entity_list, @)]
    /\ UNCHANGED <<doc_text, entity_list, graph>>

Phase1Keeper(c) ==
    /\ At(c, "phase1_keeper")
    /\ calls' = [calls EXCEPT ![c] = Phase1KeeperStep(doc_text, entity_list, @)]
    /\ UNCHANGED <<doc_text, entity_list, graph>>

Phase1Alias(c) ==
    /\ At(c, "phase1_alias")
    /\ calls' = [calls EXCEPT ![c] = Phase1AliasStep(doc_text, entity_list, @)]
    /\ UNCHANGED <<doc_text, entity_list, graph>>

\* a faulty variant: matched_ranges is one list for all the calls in flight
Phase2_shared_ranges(c) ==
    /\ At(c, "phase2")
    /\ calls' = [calls EXCEPT ![c] =
                     Phase2Step(doc_text, entity_list,
                                [@ EXCEPT !.matched_ranges =
                                      @ \o RangesOfOthers(c, Len(calls))])]
    /\ UNCHANGED <<doc_text, entity_list, graph>>

Phase2(c) ==
    /\ At(c, "phase2")
    /\ calls' = [calls EXCEPT ![c] = Phase2Step(doc_text, entity_list, @)]
    /\ UNCHANGED <<doc_text, entity_list, graph>>

Phase3(c) ==
    /\ At(c, "phase3")
    /\ calls' = [calls EXCEPT ![c] = Phase3Step(doc_text, entity_list, @)]
    /\ UNCHANGED <<doc_text, entity_list, graph>>

Sort(c) ==
    /\ At(c, "sort")
    /\ calls' = [calls EXCEPT ![c] = SortStep(@)]
    /\ UNCHANGED <<doc_text, entity_list, graph>>

Next ==
    \/ \E c \in DOMAIN calls : Call(c)
    \/ \E c \in DOMAIN calls : Phase1Keeper(c)
    \/ \E c \in DOMAIN calls : Phase1Alias(c)
    \/ \E c \in DOMAIN calls : Phase2(c)
    \/ \E c \in DOMAIN calls : Phase3(c)
    \/ \E c \in DOMAIN calls : Sort(c)

Spec == Init /\ [][Next]_vars

(***************************************************************************)
(* Two calls over one document and one catalog.  Every call has its own    *)
(* frame: config, min_confidence, context_chars, mentions, matched_ranges  *)
(* and the loop variables are locals of extract_entity_mentions, and the   *)
(* document and the catalog are only read.  In SpecConcurrent the steps of *)
(* the two calls interleave in every way; in SpecSequential the second     *)
(* call is made with the config of the first after the first has returned. *)
(***************************************************************************)
PairTokens == { <<" ">>, <<Backtick>>, s_data, s_Keeper }

PairDocuments == Texts(PairTokens, MaxTokens)

PairCatalogs ==
    { <<KeeperData>>, <<MsgAlias>>, <<KeeperData, MsgData>>, <<ShortX, KeeperData>> }

PairConfigs == { None, [min_confidence |-> 90] }

InitConcurrent ==
    /\ doc_text \in PairDocuments
    /\ entity_list \in PairCatalogs
    /\ \E config1 \in PairConfigs, config2 \in PairConfigs :
           calls = <<Idle(config1), Idle(config2)>>
    /\ graph = NoGraph

SpecConcurrent == InitConcurrent /\ [][Next]_vars

InitSequential ==
    /\ doc_text \in PairDocuments
    /\ entity_list \in PairCatalogs
    /\ \E config \in PairConfigs : calls = <<Idle(config), Idle(config)>>
    /\ graph = NoGraph

\* a call is made when the calls before it have returned
CallInTurn(c) ==
    /\ \A d \in 1 .. (c - 1) : calls[d].pc = "done"
    /\ Call(c)

NextSequential ==
    \/ \E c \in DOMAIN calls : CallInTurn(c)
    \/ \E c \in DOMAIN calls : Phase1Keeper(c)
    \/ \E c \in DOMAIN calls : Phase1Alias(c)
    \/ \E c \in DOMAIN calls : Phase2(c)
    \/ \E c \in DOMAIN calls : Phase3(c)
    \/ \E c \in DOMAIN calls : Sort(c)

SpecSequential == InitSequential /\ [][NextSequential]_vars

(***************************************************************************)
(* One call over documents with the characters "." and "*", with the word  *)
(* keeper in three letter cases, and with texts that differ from the       *)
(* module x.x and the alias data.x in the place of the "." only.           *)
(***************************************************************************)
s_KEEPER == <<"K","E","E","P","E","R">>

PatternTokens ==
    { <<" ">>, <<".">>, <<"*">>, <<"x">>, s_data, s_keeper, s_Keeper, s_KEEPER,
      s_x_x, <<"x", "x", "x">> }

PatternDocuments == Texts(PatternTokens, MaxTokens)

PatternCatalogs ==
    { <<KeeperDotted>>, <<MsgStar>>, <<MsgStar, KeeperDotted>>,
      <<KeeperData>>, <<KeeperX>> }

InitPatterns ==
    /\ doc_text \in PatternDocuments
    /\ entity_list \in PatternCatalogs
    /\ calls = <<Idle(None)>>
    /\ graph = NoGraph

SpecPatterns == InitPatterns /\ [][Next]_vars

(***************************************************************************)
(* One call over documents with newlines, runs of whitespace, backticks    *)
(* and backticks that a backslash escapes.                                  *)
(***************************************************************************)
EscapedBacktick == <<"\\", Backtick>>

TextTokens ==
    { <<" ">>, <<"\n">>, <<Backtick>>, EscapedBacktick, s_data, s_Data, s_keeper }

TextDocuments == Texts(TextTokens, MaxTokens)

TextCatalogs == { <<MsgData>>, <<MsgLower>>, <<KeeperData>> }

TextConfigs == { None, [context_chars |-> 0], [context_chars |-> 2] }

InitText ==
    /\ doc_text \in TextDocuments
    /\ entity_list \in TextCatalogs
    /\ \E config \in TextConfigs : calls = <<Idle(config)>>
    /\ graph = NoGraph

SpecText == InitText /\ [][Next]_vars

(***************************************************************************)
(* One turn of the loop of main over the documents: the Document node, the *)
(* call of extract_entity_mentions without a config, and one edge for each *)
(* mention of the result.  A document without content is skipped.          *)
(***************************************************************************)
doc_id == "doc:1"

PersistCatalogs ==
    { <<KeeperData>>, <<KeeperData, KeeperX>>, <<KeeperData, MsgData>>,
      <<MsgData, MsgLower>> }

InitPersist ==
    /\ doc_text \in PairDocuments
    /\ entity_list \in PersistCatalogs
    /\ calls = <<Idle(None)>>
    /\ graph = Graph(entity_list)

\* if not content: continue; create_document_node(...)
MainDocument ==
    /\ graph.pc = "document"
    /\ graph' = IF doc_text = <<>> THEN [graph EXCEPT !.pc = "end"]
                ELSE [create_document_node(graph, doc_id) EXCEPT !.pc = "extract"]
    /\ UNCHANGED <<doc_text, entity_list, calls>>

\* for mention in mentions: create_mentions_edge(...)
MainEdge ==
    /\ graph.pc = "extract"
    /\ calls[1].pc = "done"
    /\ graph.next <= Len(calls[1].mentions)
    /\ LET mention == calls[1].mentions[graph.next]
       IN  graph' = [create_mentions_edge(graph, doc_id, mention.entity_name,
                                          mention.surface_form, mention.confidence,
                                          mention.start_offset)
                         EXCEPT !.next = @ + 1]
    /\ UNCHANGED <<doc_text, entity_list, calls>>

\* the end of the loop over the mentions
MainEnd ==
    /\ graph.pc = "extract"
    /\ calls[1].pc = "done"
    /\ graph.next > Len(calls[1].mentions)
    /\ graph' = [graph EXCEPT !.pc = "end"]
    /\ UNCHANGED <<doc_text, entity_list, calls>>

NextPersist ==
    \/ MainDocument
    \/ \E c \in DOMAIN calls : graph.pc = "extract" /\ Call(c)
    \/ \E c \in DOMAIN calls : graph.pc = "extract" /\ Phase1Keeper(c)
    \/ \E c \in DOMAIN calls : graph.pc = "extract" /\ Phase1Alias(c)
    \/ \E c \in DOMAIN calls : graph.pc = "extract" /\ Phase2(c)
    \/ \E c \in DOMAIN calls : graph.pc = "extract" /\ Phase3(c)
    \/ \E c \in DOMAIN calls : graph.pc = "extract" /\ Sort(c)
    \/ MainEdge
    \/ MainEnd

SpecPersist == InitPersist /\ [][NextPersist]_vars

(***************************************************************************)
(* Notions the properties are stated with.                                 *)
(***************************************************************************)
Returned(c) == calls[c].pc = "done"

\* the spans [s1, e1) and [s2, e2) have an offset in common
Intersect(s1, e1, s2, e2) == s1 < e2 /\ s2 < e1

\* the last element of a non-empty sequence
Last(seq) == seq[Len(seq)]

\* a call takes a step in which it collects a mention
Collects(c) == Len(calls'[c].mentions) = Len(calls[c].mentions) + 1

InPhase1(f) == f.pc \in {"phase1_keeper", "phase1_alias"}
InNamePhase(f) == f.pc \in {"phase2", "phase3"}

\* the values a config asks for
AskedMinConfidence(config) == Get(config, "min_confidence", 0)
AskedContextChars(config) == Get(config, "context_chars", 50)

\* text occurs at offset s in any letter case, with no letter, digit or
\* underscore right before it or right after it
WholeWordAt(text, doc, s) ==
    /\ LiteralAt(text, doc, s, TRUE)
    /\ ~(s > 0 /\ IsWordChar(doc[s]))
    /\ ~(s + Len(text) < Len(doc) /\ IsWordChar(doc[s + Len(text) + 1]))

\* offset pos lies after an odd number of backticks and before a backtick
InsideCodeSpan(doc, pos) ==
    /\ Cardinality({i \in 1..pos : doc[i] = Backtick}) % 2 = 1
    /\ \E i \in (pos + 1)..Len(doc) : doc[i] = Backtick

\* the frame of a call with this config when its scan leaves Phase 1
RECURSIVE AfterPhase1(_, _, _)
AfterPhase1(doc, entities, f) ==
    IF f.pc = "call" \/ InPhase1(f)
    THEN AfterPhase1(doc, entities, Step(doc, entities, f))
    ELSE f

(***************************************************************************)
(* C1: no two mentions returned by one call have intersecting              *)
(* [start_offset, end_offset) ranges.                                      *)
(***************************************************************************)
C1_NoOverlap ==
    \A c \in DOMAIN calls :
        Returned(c) =>
            \A i, j \in DOMAIN calls[c].mentions :
                i # j => ~Intersect(calls[c].mentions[i].start_offset,
                                    calls[c].mentions[i].end_offset,
                                    calls[c].mentions[j].start_offset,
                                    calls[c].mentions[j].end_offset)

\* a call returned a mention, and left out a match of an entity name that
\* begins elsewhere and intersects it
C1_Witness ==
    \E c \in DOMAIN calls :
        /\ Returned(c)
        /\ \E e \in DOMAIN entity_list, s \in 0..Len(doc_text), i \in DOMAIN calls[c].mentions :
              /\ Len(entity_list[e].name) > 3
              /\ WordPatternEnd(entity_list[e].name, doc_text, s, TRUE) # -1
              /\ s # calls[c].mentions[i].start_offset
              /\ Intersect(s, s + Len(entity_list[e].name),
                           calls[c].mentions[i].start_offset,
                           calls[c].mentions[i].end_offset)

(***************************************************************************)
(* C2: the result with min_confidence = t is exactly the result with       *)
(* min_confidence = 0 (same document, catalog and context_chars)           *)
(* restricted to the mentions of confidence >= t.                          *)
(***************************************************************************)
C2_ThresholdOnlyFilters ==
    \A c \in DOMAIN calls :
        Returned(c) =>
            LET f == calls[c]
                base == extract_entity_mentions(doc_text, entity_list,
                            [min_confidence |-> 0, context_chars |-> f.context_chars])
                AtLeast(m) == m.confidence >= f.min_confidence
            IN  f.mentions = SelectSeq(base, AtLeast)

(***************************************************************************)
(* C3: a call whose config has min_confidence outside [0,1] or a negative  *)
(* context_chars is rejected before any matching: it never leaves the      *)
(* entry of the call except as rejected.                                   *)
(***************************************************************************)
InvalidConfig(config) ==
    \/ AskedMinConfidence(config) < 0
    \/ AskedMinConfidence(config) > 100
    \/ AskedContextChars(config) < 0

C3_InvalidConfigRejected ==
    \A c \in DOMAIN calls :
        InvalidConfig(calls[c].config) => calls[c].pc \in {"call", "rejected"}

(***************************************************************************)
(* C4: the returned sequence is ordered by start_offset, and start_offset  *)
(* strictly increases from each mention to the next.                       *)
(***************************************************************************)
C4_StrictlyIncreasing ==
    \A c \in DOMAIN calls :
        Returned(c) =>
            \A i \in 1..(Len(calls[c].mentions) - 1) :
                calls[c].mentions[i].start_offset < calls[c].mentions[i + 1].start_offset

\* a call returned, and the scan had collected a mention before another
\* one that lies further left
C4_Witness ==
    \E c \in DOMAIN calls :
        /\ Returned(c)
        /\ \E i \in 1..(Len(calls[c].matched_ranges) - 1) :
              calls[c].matched_ranges[i][1] > calls[c].matched_ranges[i + 1][1]

(***************************************************************************)
(* C5: every returned mention has 0 <= start_offset < end_offset <=        *)
(* length(document), and document[start_offset:end_offset] equals its      *)
(* surface_form up to letter case.                                         *)
(***************************************************************************)
C5_SpanIsSurfaceForm ==
    \A c \in DOMAIN calls :
        Returned(c) =>
            \A i \in DOMAIN calls[c].mentions :
                LET m == calls[c].mentions[i]
                IN  /\ 0 <= m.start_offset
                    /\ m.start_offset < m.end_offset
                    /\ m.end_offset <= Len(doc_text)
                    /\ lower(SubSeq(doc_text, m.start_offset + 1, m.end_offset))
                         = lower(m.surface_form)

\* a call returned a mention whose surface form is not the name of its
\* entity in any letter case, and that ends where the document ends
C5_Witness ==
    \E c \in DOMAIN calls :
        /\ Returned(c)
        /\ \E i \in DOMAIN calls[c].mentions :
              /\ lower(calls[c].mentions[i].surface_form)
                   # lower(calls[c].mentions[i].entity_name)
              /\ calls[c].mentions[i].end_offset = Len(doc_text)

(***************************************************************************)
(* More notions: the steps of a call, the candidate of a step, and the     *)
(* mentions of Phase 1.                                                    *)
(***************************************************************************)
\* call c takes the step
Steps(c) == calls'[c] # calls[c]

\* the pattern the loop at the place of frame f searches for
PatternOf(f) ==
    CASE f.pc = "phase1_keeper" -> KeeperPattern(entity_list[f.ei].module)
      [] f.pc = "phase1_alias"  -> WordPattern(entity_list[f.ei].aliases[f.ai], TRUE)
      [] f.pc = "phase2"        -> WordPattern(entity_list[f.ei].name, FALSE)
      [] f.pc = "phase3"        -> WordPattern(entity_list[f.ei].name, TRUE)

\* the candidate the next step of frame f looks at (NoMatch: the loop ends)
Candidate(f) == NextMatch(PatternOf(f), doc_text, f.pos)

\* the candidate m intersects the span of one of the mentions
IntersectsOneOf(m, mentions) ==
    \E i \in DOMAIN mentions :
        Intersect(m.start, m.end, mentions[i].start_offset, mentions[i].end_offset)

\* the mentions a call with the config of frame f collects in Phase 1
Phase1Mentions(f) == AfterPhase1(doc_text, entity_list, Idle(f.config)).mentions

IsPrefixOf(p, q) == Len(p) <= Len(q) /\ SubSeq(q, 1, Len(p)) = p

(***************************************************************************)
(* C6: with min_confidence <= 0.8, Phase 1 claims its spans before name    *)
(* matching.  A Phase 1 candidate is dropped only if it intersects a span  *)
(* collected earlier in Phase 1; a name candidate (Phase 2 or 3) that      *)
(* intersects a span collected in Phase 1 is dropped; and in the returned  *)
(* list a span collected in Phase 1 is intersected by one mention only,    *)
(* the Phase 1 mention itself.                                             *)
(***************************************************************************)
C6_Phase1ClaimsFirst ==
    [][\A c \in DOMAIN calls :
          LET f == calls[c]
              g == calls'[c]
          IN  (Steps(c) /\ f.pc # "call" /\ f.min_confidence <= 80) =>
                /\ (InPhase1(f) /\ Candidate(f) # NoMatch) =>
                      /\ IsPrefixOf(f.mentions, Phase1Mentions(f))
                      /\ (g.mentions = f.mentions) <=> IntersectsOneOf(Candidate(f), f.mentions)
                /\ (InNamePhase(f) /\ Candidate(f) # NoMatch
                      /\ IntersectsOneOf(Candidate(f), Phase1Mentions(f))) =>
                      g.mentions = f.mentions
                /\ g.pc = "done" =>
                      \A i \in DOMAIN Phase1Mentions(f) :
                          LET p == Phase1Mentions(f)[i]
                          IN  \A j \in DOMAIN g.mentions :
                                  Intersect(p.start_offset, p.end_offset,
                                            g.mentions[j].start_offset,
                                            g.mentions[j].end_offset)
                                  => g.mentions[j] = p
      ]_vars

\* a call with min_confidence <= 0.8 returned a mention collected in
\* Phase 1, and the name of an entity matches inside the span of it
C6_Witness ==
    \E c \in DOMAIN calls :
        /\ Returned(c)
        /\ calls[c].min_confidence <= 80
        /\ \E i \in DOMAIN calls[c].mentions, e \in DOMAIN entity_list, s \in 0..Len(doc_text) :
              /\ \E j \in DOMAIN Phase1Mentions(calls[c]) :
                    Phase1Mentions(calls[c])[j] = calls[c].mentions[i]
              /\ Len(entity_list[e].name) > 3
              /\ WordPatternEnd(entity_list[e].name, doc_text, s, TRUE) # -1
              /\ Intersect(s, s + Len(entity_list[e].name),
                           calls[c].mentions[i].start_offset,
                           calls[c].mentions[i].end_offset)

(***************************************************************************)
(* C7: for a catalog of one entity that has no aliases, is not a Keeper    *)
(* and has a name longer than 3 characters, with the default config, the   *)
(* result holds exactly one mention per whole-word occurrence of the name  *)
(* in any letter case, at the offsets of the occurrence, and nothing else; *)
(* an occurrence in the exact case of the name has confidence 1.0.         *)
(***************************************************************************)
DefaultConfig(config) ==
    "min_confidence" \notin DOMAIN config /\ "context_chars" \notin DOMAIN config

C7_OnePerWholeWordOccurrence ==
    \A c \in DOMAIN calls :
        (/\ Returned(c)
         /\ DefaultConfig(calls[c].config)
         /\ Len(entity_list) = 1
         /\ entity_list[1].aliases = <<>>
         /\ entity_list[1].entity_type # "Keeper"
         /\ Len(entity_list[1].name) > 3) =>
            LET name == entity_list[1].name
                found == calls[c].mentions
                occurrences == {s \in 0..Len(doc_text) : WholeWordAt(name, doc_text, s)}
            IN  /\ Len(found) = Cardinality(occurrences)
                /\ \A s \in occurrences : \E i \in DOMAIN found : found[i].start_offset = s
                /\ \A i \in DOMAIN found :
                      /\ found[i].start_offset \in occurrences
                      /\ found[i].end_offset = found[i].start_offset + Len(name)
                      /\ found[i].entity_id = entity_list[1].entity_id
                      /\ found[i].surface_form = name => found[i].confidence = 100

(***************************************************************************)
(* C8: a mention collected in a name phase whose surface_form equals the   *)
(* canonical name up to letter case, and not character for character, has *)
(* confidence 1.0 when its start lies inside a backtick code span and 0.9  *)
(* otherwise.                                                              *)
(***************************************************************************)
C8_CaseInsensitiveScore ==
    [][\A c \in DOMAIN calls :
          (Steps(c) /\ InNamePhase(calls[c]) /\ Collects(c)) =>
              LET m == Last(calls'[c].mentions)
              IN  (/\ lower(m.surface_form) = lower(m.entity_name)
                   /\ m.surface_form # m.entity_name) =>
                      m.confidence = IF InsideCodeSpan(doc_text, m.start_offset)
                                     THEN 100 ELSE 90
      ]_vars

\* a call returned a mention of a name phase that differs from the name in
\* letter case only and starts inside a code span
C8_Witness ==
    \E c \in DOMAIN calls :
        /\ Returned(c)
        /\ \E i \in DOMAIN calls[c].mentions :
              LET m == calls[c].mentions[i]
              IN  /\ \A j \in DOMAIN Phase1Mentions(calls[c]) :
                        Phase1Mentions(calls[c])[j] # m
                  /\ lower(m.surface_form) = lower(m.entity_name)
                  /\ m.surface_form # m.entity_name
                  /\ InsideCodeSpan(doc_text, m.start_offset)

(***************************************************************************)
(* C9: every mention collected from an alias pattern or from the           *)
(* module+keeper pattern has confidence exactly 0.8, also when the match   *)
(* lies inside a backtick code span and also when the matched text is      *)
(* character for character the canonical name of the entity.               *)
(***************************************************************************)
C9_Phase1ScoreIsFixed ==
    [][\A c \in DOMAIN calls :
          (Steps(c) /\ InPhase1(calls[c]) /\ Collects(c)) =>
              Last(calls'[c].mentions).confidence = 80
      ]_vars

\* a call returned a mention of Phase 1 whose surface form is the name of
\* its entity and that starts inside a code span
C9_Witness ==
    \E c \in DOMAIN calls :
        /\ Returned(c)
        /\ \E i \in DOMAIN calls[c].mentions :
              LET m == calls[c].mentions[i]
              IN  /\ \E j \in DOMAIN Phase1Mentions(calls[c]) :
                        Phase1Mentions(calls[c])[j] = m
                  /\ m.surface_form = m.entity_name
                  /\ InsideCodeSpan(doc_text, m.start_offset)

(***************************************************************************)
(* C10: an entity whose name has length <= 3 never yields a mention        *)
(* through name matching: the name loops (Phase 2 and Phase 3) never run   *)
(* for it, and each of its mentions, at any point of the scan, is one of   *)
(* Phase 1 (an alias or the module+keeper pattern).                        *)
(***************************************************************************)
C10_ShortNameNotMatched ==
    \A c \in DOMAIN calls :
        /\ InNamePhase(calls[c]) => Len(entity_list[calls[c].ei].name) > 3
        /\ \A i \in DOMAIN calls[c].mentions :
              Len(calls[c].mentions[i].entity_name) <= 3 =>
                  \E j \in DOMAIN Phase1Mentions(calls[c]) :
                      Phase1Mentions(calls[c])[j] = calls[c].mentions[i]

\* a call returned a mention of an entity with a name of length <= 3, and
\* the document holds a whole-word occurrence of that name outside of
\* every mention
C10_Witness ==
    \E c \in DOMAIN calls :
        /\ Returned(c)
        /\ \E e \in DOMAIN entity_list, s \in 0..Len(doc_text) :
              /\ Len(entity_list[e].name) <= 3
              /\ \E i \in DOMAIN calls[c].mentions :
                    calls[c].mentions[i].entity_id = entity_list[e].entity_id
              /\ WholeWordAt(entity_list[e].name, doc_text, s)
              /\ ~IntersectsOneOf([start |-> s, end |-> s + Len(entity_list[e].name)],
                                  calls[c].mentions)

(***************************************************************************)
(* C11: an occurrence of the name or of an alias of an entity that is      *)
(* immediately preceded or immediately followed in the document by a       *)
(* letter, digit or underscore is never returned as a mention.             *)
(***************************************************************************)
\* the mention m is an occurrence of the name or of an alias of its entity
NameOrAliasMention(m) ==
    \E e \in DOMAIN entity_list :
        /\ entity_list[e].entity_id = m.entity_id
        /\ \/ lower(m.surface_form) = lower(entity_list[e].name)
           \/ \E a \in DOMAIN entity_list[e].aliases :
                  lower(m.surface_form) = lower(entity_list[e].aliases[a])

C11_NotInsideIdentifier ==
    \A c \in DOMAIN calls :
        Returned(c) =>
            \A i \in DOMAIN calls[c].mentions :
                LET m == calls[c].mentions[i]
                IN  NameOrAliasMention(m) =>
                        /\ ~(m.start_offset > 0 /\ IsWordChar(doc_text[m.start_offset]))
                        /\ ~(m.end_offset < Len(doc_text)
                               /\ IsWordChar(doc_text[m.end_offset + 1]))

(***************************************************************************)
(* C12: every mention returned by a call has confidence >= the             *)
(* min_confidence of the config of the call (default 0.0).                 *)
(***************************************************************************)
C12_AtLeastMinConfidence ==
    \A c \in DOMAIN calls :
        Returned(c) =>
            \A i \in DOMAIN calls[c].mentions :
                calls[c].mentions[i].confidence >= AskedMinConfidence(calls[c].config)

\* a call with a threshold returned a mention, and the same call without
\* threshold returns a mention of a confidence below the threshold
C12_Witness ==
    \E c \in DOMAIN calls :
        /\ Returned(c)
        /\ calls[c].mentions # <<>>
        /\ LET base == extract_entity_mentions(doc_text, entity_list,
                           [min_confidence |-> 0, context_chars |-> calls[c].context_chars])
           IN  \E i \in DOMAIN base :
                   base[i].confidence < AskedMinConfidence(calls[c].config)

(***************************************************************************)
(* C13: a call returns the empty sequence, without error, when the         *)
(* document is the empty string and when the catalog is empty: such a call *)
(* is only ever at a place of the scan or returned, and it holds and       *)
(* returns no mention.                                                     *)
(***************************************************************************)
Places == {"call", "phase1_keeper", "phase1_alias", "phase2", "phase3", "sort", "done"}

C13_EmptyInputEmptyResult ==
    \A c \in DOMAIN calls :
        (doc_text = <<>> \/ entity_list = <<>>) =>
            /\ calls[c].pc \in Places
            /\ calls[c].pc # "call" => calls[c].mentions = <<>>

\* a call returned for the empty document with a catalog that is not empty
C13_Witness ==
    \E c \in DOMAIN calls :
        /\ Returned(c)
        /\ doc_text = <<>>
        /\ entity_list # <<>>

(***************************************************************************)
(* C14: when the steps of two calls over the same document and catalog     *)
(* interleave, each call returns exactly the sequence that the call        *)
(* returns when it runs alone on its inputs.                               *)
(***************************************************************************)
C14_InterleavedAsAlone ==
    \A c \in DOMAIN calls :
        Returned(c) =>
            calls[c].mentions
                = extract_entity_mentions(doc_text, entity_list, calls[c].config)

\* both calls are in the middle of their scans and hold different mentions
InFlight(c) == calls[c].pc \in {"phase1_keeper", "phase1_alias", "phase2", "phase3", "sort"}

C14_Witness ==
    /\ Len(calls) = 2
    /\ Returned(1)
    /\ InFlight(2)
    /\ calls[1].mentions # <<>>
    /\ calls[2].mentions # <<>>
    /\ calls[1].matched_ranges # calls[2].matched_ranges

(***************************************************************************)
(* C15: two calls made one after the other with the same document, catalog *)
(* and config return the same sequence: nothing that the first call leaves *)
(* behind has an influence on the second.                                  *)
(***************************************************************************)
C15_SecondCallSameResult ==
    \A c \in DOMAIN calls : \A d \in DOMAIN calls :
        (Returned(c) /\ Returned(d) /\ calls[c].config = calls[d].config) =>
            calls[c].mentions = calls[d].mentions

\* the second call returned, after the first, a sequence that is not empty
C15_Witness ==
    /\ Len(calls) = 2
    /\ Returned(1)
    /\ Returned(2)
    /\ calls[2].mentions # <<>>

(***************************************************************************)
(* C16: a name, alias or module with characters that are special in a      *)
(* pattern (".", "*", "(", "[") is matched as that literal sequence of     *)
(* characters only: every mention of such an entity has as its surface     *)
(* form the name or an alias, letter case aside, or the module followed by *)
(* whitespace and keeper or Keeper.  No call leaves the scan for an error. *)
(***************************************************************************)
SpecialChars == {".", "*", "(", "["}

HasSpecial(text) == \E i \in DOMAIN text : text[i] \in SpecialChars

EntityHasSpecial(e) ==
    \/ HasSpecial(e.name)
    \/ HasSpecial(e.module)
    \/ \E a \in DOMAIN e.aliases : HasSpecial(e.aliases[a])

\* sf is the module, a run of whitespace, and keeper or Keeper
KeeperForm(module, sf) ==
    /\ module # <<>>
    /\ Len(sf) >= Len(module) + 7
    /\ SubSeq(sf, 1, Len(module)) = module
    /\ \A i \in (Len(module) + 1) .. (Len(sf) - 6) : sf[i] \in WhiteSpace
    /\ SubSeq(sf, Len(sf) - 5, Len(sf)) \in {s_keeper, s_Keeper}

LiteralOf(e, sf) ==
    \/ lower(sf) = lower(e.name)
    \/ \E a \in DOMAIN e.aliases : lower(sf) = lower(e.aliases[a])
    \/ KeeperForm(e.module, sf)

C16_SpecialCharsLiteral ==
    \A c \in DOMAIN calls :
        /\ calls[c].pc \in Places
        /\ \A i \in DOMAIN calls[c].mentions : \A e \in DOMAIN entity_list :
               (/\ calls[c].pc # "call"
                /\ entity_list[e].entity_id = calls[c].mentions[i].entity_id
                /\ EntityHasSpecial(entity_list[e]))
                   => LiteralOf(entity_list[e], calls[c].mentions[i].surface_form)

\* a call returned a mention made of a module with a "." and whitespace and
\* keeper
C16_Witness ==
    \E c \in DOMAIN calls :
        /\ Returned(c)
        /\ \E i \in DOMAIN calls[c].mentions : \E e \in DOMAIN entity_list :
               /\ entity_list[e].entity_id = calls[c].mentions[i].entity_id
               /\ HasSpecial(entity_list[e].module)
               /\ KeeperForm(entity_list[e].module, calls[c].mentions[i].surface_form)

(***************************************************************************)
(* C17: with min_confidence = 0 the accepted mentions are the greedy       *)
(* selection over the candidates in scan order: Phase 1, Phase 2, Phase 3; *)
(* in a phase by catalog index; in Phase 1 the keeper pattern of an entity *)
(* before its aliases in list order; for a pattern left to right.  A       *)
(* candidate is accepted if and only if it intersects no span accepted     *)
(* before it, and an accepted span is never removed.  The candidates of    *)
(* Phase 3 are the case-insensitive matches that are not the name itself.  *)
(***************************************************************************)
\* the matches of a pattern in the document from offset pos on, left to right
RECURSIVE AllMatches(_, _, _)
AllMatches(pattern, doc, pos) ==
    LET m == NextMatch(pattern, doc, pos)
    IN  IF m = NoMatch THEN <<>> ELSE <<m>> \o AllMatches(pattern, doc, m.end)

\* the matches ms as candidates of the catalog entry e
RECURSIVE CandidatesOf(_, _)
CandidatesOf(e, ms) ==
    IF ms = <<>> THEN <<>>
    ELSE <<[e |-> e, start |-> ms[1].start, end |-> ms[1].end]>>
             \o CandidatesOf(e, Tail(ms))

\* the alias candidates of entry e for its first k aliases
RECURSIVE AliasCandidates(_, _)
AliasCandidates(e, k) ==
    IF k = 0 THEN <<>>
    ELSE AliasCandidates(e, k - 1)
             \o (IF Len(entity_list[e].aliases[k]) > 3
                 THEN CandidatesOf(e, AllMatches(WordPattern(entity_list[e].aliases[k], TRUE),
                                                 doc_text, 0))
                 ELSE <<>>)

NotTheName(e, ms) ==
    SelectSeq(ms, LAMBDA m : Slice(doc_text, m.start, m.end) # entity_list[e].name)

\* the candidates of entry e in a phase
EntityCandidates(phase, e) ==
    LET entity == entity_list[e]
    IN  CASE phase = 1 ->
               (IF entity.entity_type = "Keeper" /\ entity.module # <<>>
                THEN CandidatesOf(e, AllMatches(KeeperPattern(entity.module), doc_text, 0))
                ELSE <<>>)
                   \o AliasCandidates(e, Len(entity.aliases))
          [] phase = 2 ->
               IF Len(entity.name) > 3
               THEN CandidatesOf(e, AllMatches(WordPattern(entity.name, FALSE), doc_text, 0))
               ELSE <<>>
          [] phase = 3 ->
               IF Len(entity.name) > 3
               THEN CandidatesOf(e, NotTheName(e,
                        AllMatches(WordPattern(entity.name, TRUE), doc_text, 0)))
               ELSE <<>>

\* the candidates of a phase for the first k entries of the catalog
RECURSIVE PhaseCandidates(_, _)
PhaseCandidates(phase, k) ==
    IF k = 0 THEN <<>>
    ELSE PhaseCandidates(phase, k - 1) \o EntityCandidates(phase, k)

ScanOrder ==
    PhaseCandidates(1, Len(entity_list))
        \o PhaseCandidates(2, Len(entity_list))
        \o PhaseCandidates(3, Len(entity_list))

\* the candidates accepted among the first k of cands
RECURSIVE Greedy(_, _)
Greedy(cands, k) ==
    IF k = 0 THEN <<>>
    ELSE LET accepted == Greedy(cands, k - 1)
             cand == cands[k]
         IN  IF \E i \in DOMAIN accepted :
                    Intersect(cand.start, cand.end, accepted[i].start, accepted[i].end)
             THEN accepted
             ELSE Append(accepted, cand)

GreedySelection ==
    LET accepted == Greedy(ScanOrder, Len(ScanOrder))
    IN  { [entity_id |-> entity_list[accepted[i].e].entity_id,
           start_offset |-> accepted[i].start,
           end_offset |-> accepted[i].end] : i \in DOMAIN accepted }

Accepted(mentions) ==
    { [entity_id |-> mentions[i].entity_id,
       start_offset |-> mentions[i].start_offset,
       end_offset |-> mentions[i].end_offset] : i \in DOMAIN mentions }

\* the candidate of the next step of frame f is a candidate of its phase
IsCandidate(f) ==
    /\ f.pc \in {"phase1_keeper", "phase1_alias", "phase2", "phase3"}
    /\ Candidate(f) # NoMatch
    /\ f.pc = "phase3" =>
           Slice(doc_text, Candidate(f).start, Candidate(f).end) # entity_list[f.ei].name

C17_GreedySelection ==
    [][\A c \in DOMAIN calls :
           (Steps(c) /\ calls[c].pc # "call" /\ calls[c].min_confidence = 0) =>
               /\ Accepted(calls[c].mentions) \subseteq Accepted(calls'[c].mentions)
               /\ IsCandidate(calls[c]) =>
                      (Collects(c) <=> ~IntersectsOneOf(Candidate(calls[c]), calls[c].mentions))
               /\ Returned(c)' => Accepted(calls'[c].mentions) = GreedySelection]_vars

\* a call without threshold returned two mentions, and a candidate that
\* intersects one of them is not among them
C17_Witness ==
    \E c \in DOMAIN calls :
        /\ Returned(c)
        /\ calls[c].min_confidence = 0
        /\ Len(calls[c].mentions) >= 2
        /\ \E k \in DOMAIN ScanOrder :
               /\ IntersectsOneOf(ScanOrder[k], calls[c].mentions)
               /\ [entity_id |-> entity_list[ScanOrder[k].e].entity_id,
                   start_offset |-> ScanOrder[k].start,
                   end_offset |-> ScanOrder[k].end] \notin Accepted(calls[c].mentions)

(***************************************************************************)
(* C18: within one phase, when a candidate of entity A and a candidate of  *)
(* a different entity B intersect, A comes before B in the catalog, and    *)
(* neither intersects a span accepted before the candidate of A is         *)
(* scanned, the candidate of A is accepted and that of B is discarded,     *)
(* also when that of B starts at a smaller offset.                         *)
(***************************************************************************)
PhaseOf(f) ==
    CASE InPhase1(f) -> 1
      [] f.pc = "phase2" -> 2
      [] f.pc = "phase3" -> 3

\* a later entry of the catalog has, in the phase of frame f, a candidate
\* that intersects the candidate of f and no accepted span
LaterRival(f) ==
    \E b \in (f.ei + 1) .. Len(entity_list) :
        LET rivals == EntityCandidates(PhaseOf(f), b)
        IN  \E k \in DOMAIN rivals :
                /\ Intersect(rivals[k].start, rivals[k].end,
                             Candidate(f).start, Candidate(f).end)
                /\ ~IntersectsOneOf(rivals[k], f.mentions)

\* an earlier entry of the catalog holds an accepted span that intersects
\* the candidate of frame f
EarlierHolder(f) ==
    \E i \in DOMAIN f.mentions : \E a \in 1 .. (f.ei - 1) :
        /\ f.mentions[i].entity_id = entity_list[a].entity_id
        /\ Intersect(Candidate(f).start, Candidate(f).end,
                     f.mentions[i].start_offset, f.mentions[i].end_offset)

C18_EarlierEntityWins ==
    [][\A c \in DOMAIN calls :
           (Steps(c) /\ IsCandidate(calls[c])) =>
               /\ (~IntersectsOneOf(Candidate(calls[c]), calls[c].mentions)
                     /\ LaterRival(calls[c]))
                    => /\ Collects(c)
                       /\ Last(calls'[c].mentions).entity_id
                              = entity_list[calls[c].ei].entity_id
                       /\ Last(calls'[c].mentions).start_offset = Candidate(calls[c]).start
                       /\ Last(calls'[c].mentions).end_offset = Candidate(calls[c]).end
               /\ EarlierHolder(calls[c]) => calls'[c].mentions = calls[c].mentions]_vars

(***************************************************************************)
(* C19: when a whole-word span of the document is the name of entity B     *)
(* byte for byte, matches the name of another entity A in another letter   *)
(* case only, and no Phase 1 span intersects it, every mention returned    *)
(* for the span is the mention of B over exactly that span with confidence *)
(* 1.0, and it is returned when min_confidence <= 1.0, whatever the order  *)
(* of A and B in the catalog.                                              *)
(***************************************************************************)
\* the span of Len(name) characters at offset s is the name byte for byte
\* and has no letter, digit or underscore next to it
ExactWholeWordAt(name, doc, s) ==
    /\ WholeWordAt(name, doc, s)
    /\ Slice(doc, s, s + Len(name)) = name

\* the span at offset s is the name of entry b, and entry a has the same
\* name in another letter case
ContestedSpan(a, b, s) ==
    /\ a # b
    /\ entity_list[a].name # entity_list[b].name
    /\ lower(entity_list[a].name) = lower(entity_list[b].name)
    /\ ExactWholeWordAt(entity_list[b].name, doc_text, s)

KeeperOccurrence(module, doc, s, t) ==
    LET w == s + Len(module)
        k == SkipSpace(doc, w)
    IN  /\ ~(s > 0 /\ IsWordChar(doc[s]))
        /\ LiteralAt(module, doc, s, FALSE)
        /\ k > w
        /\ t = k + 6
        /\ t <= Len(doc)
        /\ lower(Slice(doc, k, t)) = s_keeper
        /\ ~(t < Len(doc) /\ IsWordChar(doc[t + 1]))

C20_KeeperAnyCase ==
    \A c \in DOMAIN calls :
        calls[c].pc # "call" =>
            \A e \in DOMAIN entity_list :
                (entity_list[e].entity_type = "Keeper" /\ entity_list[e].module # <<>>) =>
                    \A s \in 0 .. Len(doc_text) : \A t \in 0 .. Len(doc_text) :
                        KeeperOccurrence(entity_list[e].module, doc_text, s, t) =>
                            \E k \in DOMAIN EntityCandidates(1, e) :
                                /\ EntityCandidates(1, e)[k].start = s
                                /\ EntityCandidates(1, e)[k].end = t

(***************************************************************************)
(* C21: a match is treated as inside a code span exactly when the number   *)
(* of backticks before its start that no backslash escapes is odd and a    *)
(* backtick follows it: a mention of a name phase that differs from the    *)
(* name in letter case only has confidence 1.0 in that case and 0.9        *)
(* otherwise.                                                              *)
(***************************************************************************)
\* the backticks among the first pos characters that no backslash precedes
UnescapedBackticks(doc, pos) ==
    {i \in 1..pos : doc[i] = Backtick /\ ~(i > 1 /\ doc[i - 1] = "\\")}

InsideUnescapedCodeSpan(doc, pos) ==
    /\ Cardinality(UnescapedBackticks(doc, pos)) % 2 = 1
    /\ \E i \in (pos + 1)..Len(doc) : doc[i] = Backtick

C21_UnescapedBackticksCount ==
    [][\A c \in DOMAIN calls :
          (Steps(c) /\ InNamePhase(calls[c]) /\ Collects(c)) =>
              LET m == Last(calls'[c].mentions)
              IN  (/\ lower(m.surface_form) = lower(m.entity_name)
                   /\ m.surface_form # m.entity_name) =>
                      m.confidence = IF InsideUnescapedCodeSpan(doc_text, m.start_offset)
                                     THEN 100 ELSE 90
      ]_vars

(***************************************************************************)
(* C22: for context_chars = c >= 0 the context of every returned mention   *)
(* is the slice of the document from max(0, start_offset - c) to           *)
(* min(length, end_offset + c) with every run of whitespace replaced by    *)
(* one space and nothing else changed; its length is at most               *)
(* (end_offset - start_offset) + 2c.                                       *)
(***************************************************************************)
\* s without the whitespace it begins with
RECURSIVE DropSpace(_)
DropSpace(s) ==
    IF s # <<>> /\ IsSpace(s[1]) THEN DropSpace(Tail(s)) ELSE s

\* s with every run of whitespace replaced by one space
RECURSIVE CollapseRuns(_)
CollapseRuns(s) ==
    IF s = <<>> THEN <<>>
    ELSE IF IsSpace(s[1]) THEN <<" ">> \o CollapseRuns(DropSpace(s))
    ELSE <<s[1]>> \o CollapseRuns(Tail(s))

\* the slice of the document around the mention m
Window(m, c) ==
    SubSeq(doc_text, Max(0, m.start_offset - c) + 1, Min(Len(doc_text), m.end_offset + c))

C22_ContextIsCollapsedWindow ==
    \A c \in DOMAIN calls :
        (Returned(c) /\ calls[c].context_chars >= 0) =>
            \A i \in DOMAIN calls[c].mentions :
                LET m == calls[c].mentions[i]
                IN  /\ m.context = CollapseRuns(Window(m, calls[c].context_chars))
                    /\ Len(m.context)
                           <= (m.end_offset - m.start_offset) + 2 * calls[c].context_chars

(***************************************************************************)
(* C23: with the default config, the context of every returned mention     *)
(* contains the surface_form of the mention as a substring.                *)
(***************************************************************************)
SubstringOf(p, q) ==
    \E k \in 0 .. (Len(q) - Len(p)) : SubSeq(q, k + 1, k + Len(p)) = p

C23_ContextHasSurfaceForm ==
    \A c \in DOMAIN calls :
        (Returned(c) /\ DefaultConfig(calls[c].config)) =>
            \A i \in DOMAIN calls[c].mentions :
                SubstringOf(calls[c].mentions[i].surface_form, calls[c].mentions[i].context)

(***************************************************************************)
(* C23, amended: with the default config, the context of every returned    *)
(* mention contains the surface_form of the mention with every run of      *)
(* whitespace in it replaced by one space.                                 *)
(***************************************************************************)
C23_ContextHasCollapsedSurfaceForm ==
    \A c \in DOMAIN calls :
        (Returned(c) /\ DefaultConfig(calls[c].config)) =>
            \A i \in DOMAIN calls[c].mentions :
                SubstringOf(CollapseRuns(calls[c].mentions[i].surface_form),
                            calls[c].mentions[i].context)

\* a call with the default config returned a mention whose surface_form has
\* a newline in it
C23_Witness ==
    \E c \in DOMAIN calls :
        /\ Returned(c)
        /\ DefaultConfig(calls[c].config)
        /\ \E i \in DOMAIN calls[c].mentions :
               \E k \in DOMAIN calls[c].mentions[i].surface_form :
                   calls[c].mentions[i].surface_form[k] = "\n"

C25_Phase3NeverExact ==
    [][\A c \in DOMAIN calls :
          (Steps(c) /\ InNamePhase(calls[c]) /\ Collects(c)) =>
              LET m == Last(calls'[c].mentions)
              IN  /\ calls[c].pc = "phase3" => m.surface_form # m.entity_name
                  /\ m.surface_form = m.entity_name => m.confidence = 100
      ]_vars

\* a call returned, and an occurrence of a name in exact case, which Phase 2
\* discarded, is no mention of that entity with that start
C25_Witness ==
    \E c \in DOMAIN calls :
        /\ Returned(c)
        /\ calls[c].mentions # <<>>
        /\ \E e \in DOMAIN entity_list : \E s \in 0 .. Len(doc_text) :
               /\ Len(entity_list[e].name) > 3
               /\ ExactWholeWordAt(entity_list[e].name, doc_text, s)
               /\ \A i \in DOMAIN calls[c].mentions :
                      ~(/\ calls[c].mentions[i].entity_id = entity_list[e].entity_id
                        /\ calls[c].mentions[i].start_offset = s)

(***************************************************************************)
(* C26: the confidence of every returned mention is 0.8, 0.9 or 1.0; the   *)
(* score 0.7 of a partial match is never given to a returned mention.      *)
(***************************************************************************)
C26_ConfidenceValues ==
    \A c \in DOMAIN calls :
        Returned(c) =>
            \A i \in DOMAIN calls[c].mentions :
                /\ calls[c].mentions[i].confidence \in {80, 90, 100}
                /\ calls[c].mentions[i].confidence # 70
                /\ calls[c].mentions[i].confidence >= 0
                /\ calls[c].mentions[i].confidence <= 100

\* a call returned mentions with two of the scores
C26_Witness ==
    \E c \in DOMAIN calls :
        /\ Returned(c)
        /\ Cardinality({calls[c].mentions[i].confidence :
                            i \in DOMAIN calls[c].mentions}) >= 2

(***************************************************************************)
(* C27: for every mention returned for a document, create_mentions_edge    *)
(* creates a MENTIONS edge from the node of the document to the node of    *)
(* the entity that the entity_id of the mention names, and to no node of   *)
(* another entity, also when entities of the catalog share a name.         *)
(***************************************************************************)
\* the edge is the edge of the mention
EdgeOf(edge, mention) ==
    /\ edge.doc = doc_id
    /\ graph.nodes[edge.node].entity_id = mention.entity_id
    /\ edge.surface_form = mention.surface_form
    /\ edge.confidence = mention.confidence
    /\ edge.start_offset = mention.start_offset

C27_EdgeToMentionedEntityOnly ==
    graph.pc \in {"extract", "end"} =>
        LET done == 1 .. (graph.next - 1)
        IN  /\ \A i \in done : \E edge \in graph.edges : EdgeOf(edge, calls[1].mentions[i])
            /\ \A edge \in graph.edges : \E i \in done : EdgeOf(edge, calls[1].mentions[i])

(***************************************************************************)
(* C28: at every point of the scan of a call, matched_ranges holds the     *)
(* spans of the mentions collected so far, in the same order.  A candidate *)
(* dropped for a confidence below min_confidence is not recorded, so a     *)
(* later candidate that intersects it is not suppressed by it.             *)
(***************************************************************************)
C28_RangesAreMentionSpans ==
    \A c \in DOMAIN calls :
        (InFlight(c) \/ calls[c].pc = "sort") =>
            /\ Len(calls[c].matched_ranges) = Len(calls[c].mentions)
            /\ \A i \in DOMAIN calls[c].mentions :
                   calls[c].matched_ranges[i]
                       = <<calls[c].mentions[i].start_offset, calls[c].mentions[i].end_offset>>

\* the scan of a call with a threshold is over: it holds a mention of a name
\* phase whose span intersects a candidate of Phase 1 that was dropped
C28_Witness ==
    \E c \in DOMAIN calls :
        /\ calls[c].pc = "sort"
        /\ calls[c].min_confidence > 80
        /\ \E i \in DOMAIN calls[c].mentions :
               \E k \in DOMAIN PhaseCandidates(1, Len(entity_list)) :
                   Intersect(PhaseCandidates(1, Len(entity_list))[k].start,
                             PhaseCandidates(1, Len(entity_list))[k].end,
                             calls[c].mentions[i].start_offset,
                             calls[c].mentions[i].end_offset)

(***************************************************************************)
(* C29: with min_confidence <= 0.8 the result is maximal: every match of   *)
(* the keeper pattern of an entity, of an alias longer than 3 characters,  *)
(* and of a name longer than 3 characters in any letter case is returned   *)
(* as a mention or intersects the span of a returned mention.              *)
(***************************************************************************)
\* the patterns of the catalog entry e
PatternsOf(e) ==
    LET entity == entity_list[e]
    IN  (IF entity.entity_type = "Keeper" /\ entity.module # <<>>
         THEN {KeeperPattern(entity.module)} ELSE {})
        \cup {WordPattern(entity.aliases[a], TRUE) :
                  a \in {x \in DOMAIN entity.aliases : Len(entity.aliases[x]) > 3}}
        \cup (IF Len(entity.name) > 3 THEN {WordPattern(entity.name, TRUE)} ELSE {})

\* the spans at which a pattern of the catalog entry e matches
MatchesOfEntity(e) ==
    { [start |-> s, end |-> PatternEnd(pattern, doc_text, s)] :
          <<pattern, s>> \in
              {x \in PatternsOf(e) \X (0 .. Len(doc_text)) :
                   PatternEnd(x[1], doc_text, x[2]) # -1} }

Names(m, e) ==
    /\ m.entity_id = e.entity_id
    /\ m.entity_name = e.name
    /\ m.entity_type = e.entity_type

\* the text sf is a form of the catalog entry e
FormOf(e, sf) ==
    \/ Len(e.name) > 3 /\ lower(sf) = lower(e.name)
    \/ \E a \in DOMAIN e.aliases :
           Len(e.aliases[a]) > 3 /\ lower(sf) = lower(e.aliases[a])
    \/ e.entity_type = "Keeper" /\ KeeperForm(e.module, sf)

C30_MentionAttributable ==
    \A c \in DOMAIN calls :
        Returned(c) =>
            \A i \in DOMAIN calls[c].mentions :
                \E e \in DOMAIN entity_list :
                    /\ Names(calls[c].mentions[i], entity_list[e])
                    /\ FormOf(entity_list[e], calls[c].mentions[i].surface_form)

\* a call returned two mentions, each the name in some letter case of its own
\* entry of the catalog
C30_Witness ==
    \E c \in DOMAIN calls :
        /\ Returned(c)
        /\ \E i, j \in DOMAIN calls[c].mentions : \E e, g \in DOMAIN entity_list :
               /\ entity_list[e].entity_id # entity_list[g].entity_id
               /\ Names(calls[c].mentions[i], entity_list[e])
               /\ Names(calls[c].mentions[j], entity_list[g])
               /\ lower(calls[c].mentions[i].surface_form) = lower(entity_list[e].name)
               /\ lower(calls[c].mentions[j].surface_form) = lower(entity_list[g].name)

====
